---- MODULE Spec2Model ----
(***************************************************************************)
(* The "Bioscrape Processes in Vivarium" notebook and its SBML fixtures.   *)
(*                                                                         *)
(* The notebook builds a transcription/translation/degradation reaction    *)
(* network, wraps it in a simulation unit, runs it for a fixed duration,   *)
(* plots the time series, writes the model to an SBML file, builds a       *)
(* second unit from that file, then runs and plots again.                  *)
(*                                                                         *)
(* Quantities (concentrations, counts, rate constants) are fixed-point     *)
(* integers: Unit stands for 1.0.  A decimal as it is written in an SBML   *)
(* attribute is Dec(m, e), the text of m * 10^-e.                          *)
(***************************************************************************)
EXTENDS Integers, Sequences, FiniteSets, TLC

VARIABLES
  pc,                 \* the notebook cell that runs next
  M,                  \* the Bioscrape Model built in cell 2
  parameters,         \* the notebook variable `parameters` (rebound twice)
  bioscrape_process,  \* the simulation unit built from M
  bvp,                \* the simulation unit built from the SBML file
  initial_state,      \* bioscrape_process.initial_state()
  sim_settings,       \* {'total_time', 'initial_state'}
  experiment,         \* the experiment in progress inside the runner
  output,             \* the notebook variable `output`
  files,              \* files on disk: name -> SBML document
  figures,            \* the figures plotted so far
  runs,               \* what the runner was handed and returned, per run
  inputs,             \* the literals the cells are run with
  traceback,          \* the error that ended the execution, if any
  crn                 \* a reaction network simulated on its own

vars == <<pc, M, parameters, bioscrape_process, bvp, initial_state,
          sim_settings, experiment, output, files, figures, runs, inputs,
          traceback, crn>>

----------------------------------------------------------------------------
(* Numbers *)

\* 1.0 in fixed point
Unit == 1000

\* Largest number of net firings by which a species may exceed its initial
\* count in a stochastic exploration
MaxCount == 3

Dec(m, e) == [m |-> m, e |-> e]

RECURSIVE Pow10(_)
Pow10(n) == IF n = 0 THEN 1 ELSE 10 * Pow10(n - 1)

\* The number a decimal text denotes, truncated to the fixed-point resolution
Quantity(d) ==
  IF d.e > 3 THEN d.m \div Pow10(d.e - 3) ELSE d.m * Pow10(3 - d.e)

RECURSIVE StripZeros(_)
StripZeros(d) ==
  IF d.e > 0 /\ d.m % 10 = 0 THEN StripZeros(Dec(d.m \div 10, d.e - 1)) ELSE d

\* The shortest decimal text of a fixed-point number
Text(v) == StripZeros(Dec(v, 3))

\* a * b in fixed point, without an intermediate product beyond 32 bits
MulUnit(a, b) == (a \div Unit) * b + ((a % Unit) * b) \div Unit

RECURSIVE PowUnit(_, _)
PowUnit(a, n) == IF n = 0 THEN Unit ELSE MulUnit(a, PowUnit(a, n - 1))

Range(f) == {f[i] : i \in DOMAIN f}

RECURSIVE SetToSeq(_)
SetToSeq(S) ==
  IF S = {} THEN <<>>
  ELSE LET a == CHOOSE a \in S : TRUE IN <<a>> \o SetToSeq(S \ {a})

Count(seq, a) == Cardinality({i \in DOMAIN seq : seq[i] = a})

----------------------------------------------------------------------------
(* The notebook's model definition: cell 2 *)

\* Variant: the ribosome species is left out of the species list
species_without_R == <<"G", "T", "P">>

species == <<"G", "T", "P", "R">>

\* Variant: transcription uses the gene up
reactions_gene_consumed == <<
  << <<"G">>, <<"T">>, "massaction", [k |-> "k_tx"] >>,
  << <<"T">>, <<"T", "P">>, "proportionalhillpositive",
     [k |-> "k_tl", K |-> "K", n |-> 1, s1 |-> "G", d |-> "R"] >>,
  << <<"T">>, <<>>, "massaction", [k |-> "delta"] >>,
  << <<"P">>, <<>>, "massaction", [k |-> "delta"] >> >>

\* Variant: translation written with reactant and product exchanged
reactions_reversed_translation == <<
  << <<"G">>, <<"G", "T">>, "massaction", [k |-> "k_tx"] >>,
  << <<"P">>, <<"T">>, "proportionalhillpositive",
     [k |-> "k_tl", K |-> "K", n |-> 1, s1 |-> "G", d |-> "R"] >>,
  << <<"T">>, <<>>, "massaction", [k |-> "delta"] >>,
  << <<"P">>, <<>>, "massaction", [k |-> "delta"] >> >>

\* Variant: the dilution of P is left out
reactions_without_protein_dilution == <<
  << <<"G">>, <<"G", "T">>, "massaction", [k |-> "k_tx"] >>,
  << <<"T">>, <<"T", "P">>, "proportionalhillpositive",
     [k |-> "k_tl", K |-> "K", n |-> 1, s1 |-> "G", d |-> "R"] >>,
  << <<"T">>, <<>>, "massaction", [k |-> "delta"] >> >>

reactions == <<
  << <<"G">>, <<"G", "T">>, "massaction", [k |-> "k_tx"] >>,
  << <<"T">>, <<"T", "P">>, "proportionalhillpositive",
     [k |-> "k_tl", K |-> "K", n |-> 1, s1 |-> "G", d |-> "R"] >>,
  << <<"T">>, <<>>, "massaction", [k |-> "delta"] >>,
  << <<"P">>, <<>>, "massaction", [k |-> "delta"] >> >>

\* Variant: K is left out of the parameter mapping
rate_parameters_without_K ==
  [k_tx |-> Quantity(Dec(5, 2)), k_tl |-> Quantity(Dec(1, 1)),
   delta |-> Quantity(Dec(1, 3))]

\* parameters = {"k_tx":.05, "k_tl":.1, "K":10, "delta":.001}
rate_parameters ==
  [k_tx |-> Quantity(Dec(5, 2)), k_tl |-> Quantity(Dec(1, 1)),
   K |-> Quantity(Dec(10, 0)), delta |-> Quantity(Dec(1, 3))]

\* Variant: the two initial values are exchanged
initial_condition_exchanged ==
  [G |-> Quantity(Dec(100, 0)), R |-> Quantity(Dec(1, 0))]

\* initial_condition = {"G":1.0, "R":100}
initial_condition == [G |-> Quantity(Dec(1, 0)), R |-> Quantity(Dec(100, 0))]

\* Variant: the configuration names a file beside the model instance
model_parameters_with_file(model) ==
  [bioscrape_model |-> model,
   sbml_file |-> "model5.xml",
   internal_dt |-> Quantity(Dec(1, 2)),
   stochastic |-> FALSE,
   initial_volume |-> Quantity(Dec(1, 0))]

\* parameters = {'bioscrape_model':M, 'internal_dt':0.01, 'stochastic': False,
\* 'initial_volume':1.0}
model_parameters(model) ==
  [bioscrape_model |-> model,
   internal_dt |-> Quantity(Dec(1, 2)),
   stochastic |-> FALSE,
   initial_volume |-> Quantity(Dec(1, 0))]

\* Variant: a duration no run can reach
total_time_negative == 0 - 1

total_time == 1000

\* Variant: the model is written under another name than the one read back
written_file_renamed == "model.xml"

\* M.write_sbml_model("sbml_model.xml")
written_file == "sbml_model.xml"

\* Variant: the configuration names a fixture file, not the file written
sbml_parameters_fixture ==
  [sbml_file |-> "model5.xml",
   internal_dt |-> Quantity(Dec(1, 2)),
   stochastic |-> FALSE,
   initial_volume |-> Quantity(Dec(1, 0))]

\* parameters = {'sbml_file': "sbml_model.xml", 'internal_dt': 0.01,
\* 'stochastic': False, 'initial_volume':1.0}
sbml_parameters ==
  [sbml_file |-> "sbml_model.xml",
   internal_dt |-> Quantity(Dec(1, 2)),
   stochastic |-> FALSE,
   initial_volume |-> Quantity(Dec(1, 0))]

----------------------------------------------------------------------------
(* The SBML fixture documents *)

\* Variant: r3 of part_000 degrades the RNAase along with the transcript
Part000_RNAase_degraded ==
  [level |-> 3, version |-> 2,
   listOfSpecies |-> <<
      [id |-> "dna_G", initialConcentration |-> Dec(1, 0)],
      [id |-> "rna_T", initialConcentration |-> Dec(0, 0)],
      [id |-> "protein_X", initialConcentration |-> Dec(0, 0)],
      [id |-> "protein_RNAase", initialConcentration |-> Dec(45, 0)],
      [id |-> "complex_protein_RNAase_rna_T_", initialConcentration |-> Dec(0, 0)]>>,
   listOfParameters |-> <<
      [id |-> "ktx_medium_simple_transcription", value |-> Dec(2221875, 7)],
      [id |-> "ktl_medium_simple_translation", value |-> Dec(75, 3)],
      [id |-> "kb__", value |-> Dec(100, 0)],
      [id |-> "ku__", value |-> Dec(10, 0)],
      [id |-> "kdeg__rna_degredation_mm", value |-> Dec(1, 3)]>>,
   listOfReactions |-> <<
      [id |-> "r0", reversible |-> FALSE,
       PropensityType |-> [k |-> "ktx_medium_simple_transcription", type |-> "massaction"],
       listOfReactants |-> <<[species |-> "dna_G", stoichiometry |-> 1]>>,
       listOfProducts |-> <<[species |-> "dna_G", stoichiometry |-> 1], [species |-> "rna_T", stoichiometry |-> 1]>>,
       math |-> <<"ktx_medium_simple_transcription", "dna_G">>,
       listOfLocalParameters |-> <<>>],
      [id |-> "r1", reversible |-> FALSE,
       PropensityType |-> [k |-> "ktl_medium_simple_translation", type |-> "massaction"],
       listOfReactants |-> <<[species |-> "rna_T", stoichiometry |-> 1]>>,
       listOfProducts |-> <<[species |-> "rna_T", stoichiometry |-> 1], [species |-> "protein_X", stoichiometry |-> 1]>>,
       math |-> <<"ktl_medium_simple_translation", "rna_T">>,
       listOfLocalParameters |-> <<>>],
      [id |-> "r2", reversible |-> FALSE,
       PropensityType |-> [k |-> "kb__", type |-> "massaction"],
       listOfReactants |-> <<[species |-> "rna_T", stoichiometry |-> 1], [species |-> "protein_RNAase", stoichiometry |-> 1]>>,
       listOfProducts |-> <<[species |-> "complex_protein_RNAase_rna_T_", stoichiometry |-> 1]>>,
       math |-> <<"kb__", "rna_T", "protein_RNAase">>,
       listOfLocalParameters |-> <<>>],
      [id |-> "r2rev", reversible |-> FALSE,
       PropensityType |-> [k |-> "ku__", type |-> "massaction"],
       listOfReactants |-> <<[species |-> "complex_protein_RNAase_rna_T_", stoichiometry |-> 1]>>,
       listOfProducts |-> <<[species |-> "rna_T", stoichiometry |-> 1], [species |-> "protein_RNAase", stoichiometry |-> 1]>>,
       math |-> <<"ku__", "complex_protein_RNAase_rna_T_">>,
       listOfLocalParameters |-> <<>>],
      [id |-> "r3", reversible |-> FALSE,
       PropensityType |-> [k |-> "kdeg__rna_degredation_mm", type |-> "massaction"],
       listOfReactants |-> <<[species |-> "complex_protein_RNAase_rna_T_", stoichiometry |-> 1]>>,
       listOfProducts |-> <<>>,
       math |-> <<"kdeg__rna_degredation_mm", "complex_protein_RNAase_rna_T_">>,
       listOfLocalParameters |-> <<>>]>>]

\* src/unnamed/part_000 lines 1-136: model biocrnpyler_242703
Part000 ==
  [level |-> 3, version |-> 2,
   listOfSpecies |-> <<
      [id |-> "dna_G", initialConcentration |-> Dec(1, 0)],
      [id |-> "rna_T", initialConcentration |-> Dec(0, 0)],
      [id |-> "protein_X", initialConcentration |-> Dec(0, 0)],
      [id |-> "protein_RNAase", initialConcentration |-> Dec(45, 0)],
      [id |-> "complex_protein_RNAase_rna_T_", initialConcentration |-> Dec(0, 0)]>>,
   listOfParameters |-> <<
      [id |-> "ktx_medium_simple_transcription", value |-> Dec(2221875, 7)],
      [id |-> "ktl_medium_simple_translation", value |-> Dec(75, 3)],
      [id |-> "kb__", value |-> Dec(100, 0)],
      [id |-> "ku__", value |-> Dec(10, 0)],
      [id |-> "kdeg__rna_degredation_mm", value |-> Dec(1, 3)]>>,
   listOfReactions |-> <<
      [id |-> "r0", reversible |-> FALSE,
       PropensityType |-> [k |-> "ktx_medium_simple_transcription", type |-> "massaction"],
       listOfReactants |-> <<[species |-> "dna_G", stoichiometry |-> 1]>>,
       listOfProducts |-> <<[species |-> "dna_G", stoichiometry |-> 1], [species |-> "rna_T", stoichiometry |-> 1]>>,
       math |-> <<"ktx_medium_simple_transcription", "dna_G">>,
       listOfLocalParameters |-> <<>>],
      [id |-> "r1", reversible |-> FALSE,
       PropensityType |-> [k |-> "ktl_medium_simple_translation", type |-> "massaction"],
       listOfReactants |-> <<[species |-> "rna_T", stoichiometry |-> 1]>>,
       listOfProducts |-> <<[species |-> "rna_T", stoichiometry |-> 1], [species |-> "protein_X", stoichiometry |-> 1]>>,
       math |-> <<"ktl_medium_simple_translation", "rna_T">>,
       listOfLocalParameters |-> <<>>],
      [id |-> "r2", reversible |-> FALSE,
       PropensityType |-> [k |-> "kb__", type |-> "massaction"],
       listOfReactants |-> <<[species |-> "rna_T", stoichiometry |-> 1], [species |-> "protein_RNAase", stoichiometry |-> 1]>>,
       listOfProducts |-> <<[species |-> "complex_protein_RNAase_rna_T_", stoichiometry |-> 1]>>,
       math |-> <<"kb__", "rna_T", "protein_RNAase">>,
       listOfLocalParameters |-> <<>>],
      [id |-> "r2rev", reversible |-> FALSE,
       PropensityType |-> [k |-> "ku__", type |-> "massaction"],
       listOfReactants |-> <<[species |-> "complex_protein_RNAase_rna_T_", stoichiometry |-> 1]>>,
       listOfProducts |-> <<[species |-> "rna_T", stoichiometry |-> 1], [species |-> "protein_RNAase", stoichiometry |-> 1]>>,
       math |-> <<"ku__", "complex_protein_RNAase_rna_T_">>,
       listOfLocalParameters |-> <<>>],
      [id |-> "r3", reversible |-> FALSE,
       PropensityType |-> [k |-> "kdeg__rna_degredation_mm", type |-> "massaction"],
       listOfReactants |-> <<[species |-> "complex_protein_RNAase_rna_T_", stoichiometry |-> 1]>>,
       listOfProducts |-> <<[species |-> "protein_RNAase", stoichiometry |-> 1]>>,
       math |-> <<"kdeg__rna_degredation_mm", "complex_protein_RNAase_rna_T_">>,
       listOfLocalParameters |-> <<>>]>>]

\* src/Notebooks/model1.xml lines 1-68: model biocrnpyler_174478
Model1_first ==
  [level |-> 3, version |-> 2,
   listOfSpecies |-> <<
      [id |-> "dna_G", initialConcentration |-> Dec(10, 0)],
      [id |-> "rna_T", initialConcentration |-> Dec(0, 0)],
      [id |-> "protein_X", initialConcentration |-> Dec(0, 0)]>>,
   listOfParameters |-> <<
      [id |-> "ktx_medium_simple_transcription", value |-> Dec(2221875, 7)],
      [id |-> "ktl_medium_simple_translation", value |-> Dec(75, 3)]>>,
   listOfReactions |-> <<
      [id |-> "r0", reversible |-> FALSE,
       PropensityType |-> [k |-> "ktx_medium_simple_transcription", type |-> "massaction"],
       listOfReactants |-> <<[species |-> "dna_G", stoichiometry |-> 1]>>,
       listOfProducts |-> <<[species |-> "dna_G", stoichiometry |-> 1], [species |-> "rna_T", stoichiometry |-> 1]>>,
       math |-> <<"ktx_medium_simple_transcription", "dna_G">>,
       listOfLocalParameters |-> <<>>],
      [id |-> "r1", reversible |-> FALSE,
       PropensityType |-> [k |-> "ktl_medium_simple_translation", type |-> "massaction"],
       listOfReactants |-> <<[species |-> "rna_T", stoichiometry |-> 1]>>,
       listOfProducts |-> <<[species |-> "rna_T", stoichiometry |-> 1], [species |-> "protein_X", stoichiometry |-> 1]>>,
       math |-> <<"ktl_medium_simple_translation", "rna_T">>,
       listOfLocalParameters |-> <<>>]>>]

\* src/Notebooks/model1.xml lines 70-183: model biocrnpyler_219482
Model1_second ==
  [level |-> 3, version |-> 2,
   listOfSpecies |-> <<
      [id |-> "dna_G1", initialConcentration |-> Dec(1, 0)],
      [id |-> "rna_T1", initialConcentration |-> Dec(0, 0)],
      [id |-> "protein_X", initialConcentration |-> Dec(0, 0)],
      [id |-> "dna_G2", initialConcentration |-> Dec(2, 1)],
      [id |-> "rna_T2", initialConcentration |-> Dec(0, 0)]>>,
   listOfParameters |-> <<
      [id |-> "ktx_medium_simple_transcription", value |-> Dec(2221875, 7)],
      [id |-> "ktl_medium_simple_translation", value |-> Dec(75, 3)],
      [id |-> "ktx_strong_simple_transcription", value |-> Dec(4775625, 7)],
      [id |-> "ktl_weak_simple_translation", value |-> Dec(6, 2)]>>,
   listOfReactions |-> <<
      [id |-> "r0", reversible |-> FALSE,
       PropensityType |-> [k |-> "ktx_medium_simple_transcription", type |-> "massaction"],
       listOfReactants |-> <<[species |-> "dna_G1", stoichiometry |-> 1]>>,
       listOfProducts |-> <<[species |-> "dna_G1", stoichiometry |-> 1], [species |-> "rna_T1", stoichiometry |-> 1]>>,
       math |-> <<"ktx_medium_simple_transcription", "dna_G1">>,
       listOfLocalParameters |-> <<>>],
      [id |-> "r1", reversible |-> FALSE,
       PropensityType |-> [k |-> "ktl_medium_simple_translation", type |-> "massaction"],
       listOfReactants |-> <<[species |-> "rna_T1", stoichiometry |-> 1]>>,
       listOfProducts |-> <<[species |-> "rna_T1", stoichiometry |-> 1], [species |-> "protein_X", stoichiometry |-> 1]>>,
       math |-> <<"ktl_medium_simple_translation", "rna_T1">>,
       listOfLocalParameters |-> <<>>],
      [id |-> "r2", reversible |-> FALSE,
       PropensityType |-> [k |-> "ktx_strong_simple_transcription", type |-> "massaction"],
       listOfReactants |-> <<[species |-> "dna_G2", stoichiometry |-> 1]>>,
       listOfProducts |-> <<[species |-> "dna_G2", stoichiometry |-> 1], [species |-> "rna_T2", stoichiometry |-> 1]>>,
       math |-> <<"ktx_strong_simple_transcription", "dna_G2">>,
       listOfLocalParameters |-> <<>>],
      [id |-> "r3", reversible |-> FALSE,
       PropensityType |-> [k |-> "ktl_weak_simple_translation", type |-> "massaction"],
       listOfReactants |-> <<[species |-> "rna_T2", stoichiometry |-> 1]>>,
       listOfProducts |-> <<[species |-> "rna_T2", stoichiometry |-> 1], [species |-> "protein_X", stoichiometry |-> 1]>>,
       math |-> <<"ktl_weak_simple_translation", "rna_T2">>,
       listOfLocalParameters |-> <<>>]>>]

\* Variant: the law of r1 of model4.xml without its reactant
Model4_law_without_reactant ==
  [level |-> 3, version |-> 2,
   listOfSpecies |-> <<
      [id |-> "rna_RNA", initialConcentration |-> Dec(0, 0)],
      [id |-> "protein_Protein", initialConcentration |-> Dec(0, 0)]>>,
   listOfParameters |-> <<>>,
   listOfReactions |-> <<
      [id |-> "r0", reversible |-> FALSE,
       PropensityType |-> [k |-> "k_forward", type |-> "massaction"],
       listOfReactants |-> <<[species |-> "rna_RNA", stoichiometry |-> 1]>>,
       listOfProducts |-> <<>>,
       math |-> <<"k_forward", "rna_RNA">>,
       listOfLocalParameters |-> ("k_forward" :> Dec(1, 2))],
      [id |-> "r1", reversible |-> FALSE,
       PropensityType |-> [k |-> "k_forward", type |-> "massaction"],
       listOfReactants |-> <<[species |-> "protein_Protein", stoichiometry |-> 1]>>,
       listOfProducts |-> <<>>,
       math |-> <<"k_forward">>,
       listOfLocalParameters |-> ("k_forward" :> Dec(1, 2))]>>]

\* Variant: k_forward of r1 of model4.xml is 0.02
Model4_second_k_forward_doubled ==
  [level |-> 3, version |-> 2,
   listOfSpecies |-> <<
      [id |-> "rna_RNA", initialConcentration |-> Dec(0, 0)],
      [id |-> "protein_Protein", initialConcentration |-> Dec(0, 0)]>>,
   listOfParameters |-> <<>>,
   listOfReactions |-> <<
      [id |-> "r0", reversible |-> FALSE,
       PropensityType |-> [k |-> "k_forward", type |-> "massaction"],
       listOfReactants |-> <<[species |-> "rna_RNA", stoichiometry |-> 1]>>,
       listOfProducts |-> <<>>,
       math |-> <<"k_forward", "rna_RNA">>,
       listOfLocalParameters |-> ("k_forward" :> Dec(1, 2))],
      [id |-> "r1", reversible |-> FALSE,
       PropensityType |-> [k |-> "k_forward", type |-> "massaction"],
       listOfReactants |-> <<[species |-> "protein_Protein", stoichiometry |-> 1]>>,
       listOfProducts |-> <<>>,
       math |-> <<"k_forward", "protein_Protein">>,
       listOfLocalParameters |-> ("k_forward" :> Dec(2, 2))]>>]

\* Variant: model4.xml starts with one rna_RNA
Model4_rna_present ==
  [level |-> 3, version |-> 2,
   listOfSpecies |-> <<
      [id |-> "rna_RNA", initialConcentration |-> Dec(1, 0)],
      [id |-> "protein_Protein", initialConcentration |-> Dec(0, 0)]>>,
   listOfParameters |-> <<>>,
   listOfReactions |-> <<
      [id |-> "r0", reversible |-> FALSE,
       PropensityType |-> [k |-> "k_forward", type |-> "massaction"],
       listOfReactants |-> <<[species |-> "rna_RNA", stoichiometry |-> 1]>>,
       listOfProducts |-> <<>>,
       math |-> <<"k_forward", "rna_RNA">>,
       listOfLocalParameters |-> ("k_forward" :> Dec(1, 2))],
      [id |-> "r1", reversible |-> FALSE,
       PropensityType |-> [k |-> "k_forward", type |-> "massaction"],
       listOfReactants |-> <<[species |-> "protein_Protein", stoichiometry |-> 1]>>,
       listOfProducts |-> <<>>,
       math |-> <<"k_forward", "protein_Protein">>,
       listOfLocalParameters |-> ("k_forward" :> Dec(1, 2))]>>]

\* src/Notebooks/model4.xml lines 1-61: model biocrnpyler_921621
Model4 ==
  [level |-> 3, version |-> 2,
   listOfSpecies |-> <<
      [id |-> "rna_RNA", initialConcentration |-> Dec(0, 0)],
      [id |-> "protein_Protein", initialConcentration |-> Dec(0, 0)]>>,
   listOfParameters |-> <<>>,
   listOfReactions |-> <<
      [id |-> "r0", reversible |-> FALSE,
       PropensityType |-> [k |-> "k_forward", type |-> "massaction"],
       listOfReactants |-> <<[species |-> "rna_RNA", stoichiometry |-> 1]>>,
       listOfProducts |-> <<>>,
       math |-> <<"k_forward", "rna_RNA">>,
       listOfLocalParameters |-> ("k_forward" :> Dec(1, 2))],
      [id |-> "r1", reversible |-> FALSE,
       PropensityType |-> [k |-> "k_forward", type |-> "massaction"],
       listOfReactants |-> <<[species |-> "protein_Protein", stoichiometry |-> 1]>>,
       listOfProducts |-> <<>>,
       math |-> <<"k_forward", "protein_Protein">>,
       listOfLocalParameters |-> ("k_forward" :> Dec(1, 2))]>>]

\* Variant: r0rev of model5.xml gives back the gene only
Model5_reverse_loses_protein ==
  [level |-> 3, version |-> 2,
   listOfSpecies |-> <<
      [id |-> "G", initialConcentration |-> Dec(0, 0)],
      [id |-> "T", initialConcentration |-> Dec(0, 0)],
      [id |-> "P", initialConcentration |-> Dec(0, 0)],
      [id |-> "complex_G_P_", initialConcentration |-> Dec(0, 0)]>>,
   listOfParameters |-> <<>>,
   listOfReactions |-> <<
      [id |-> "r0", reversible |-> FALSE,
       PropensityType |-> [k |-> "k_forward", type |-> "massaction"],
       listOfReactants |-> <<[species |-> "G", stoichiometry |-> 1], [species |-> "P", stoichiometry |-> 1]>>,
       listOfProducts |-> <<[species |-> "complex_G_P_", stoichiometry |-> 1]>>,
       math |-> <<>>,
       listOfLocalParameters |-> ("k_forward" :> Dec(10, 0))],
      [id |-> "r0rev", reversible |-> FALSE,
       PropensityType |-> [k |-> "k_reverse", type |-> "massaction"],
       listOfReactants |-> <<[species |-> "complex_G_P_", stoichiometry |-> 1]>>,
       listOfProducts |-> <<[species |-> "G", stoichiometry |-> 1]>>,
       math |-> <<>>,
       listOfLocalParameters |-> ("k_reverse" :> Dec(100, 0))],
      [id |-> "r1", reversible |-> FALSE,
       PropensityType |-> [k |-> "k_forward", type |-> "massaction"],
       listOfReactants |-> <<[species |-> "complex_G_P_", stoichiometry |-> 1]>>,
       listOfProducts |-> <<[species |-> "T", stoichiometry |-> 1], [species |-> "G", stoichiometry |-> 1], [species |-> "P", stoichiometry |-> 1]>>,
       math |-> <<>>,
       listOfLocalParameters |-> ("k_forward" :> Dec(15, 2))]>>]

\* src/Notebooks/model5.xml lines 1-75: model biocrnpyler_482344
Model5 ==
  [level |-> 3, version |-> 2,
   listOfSpecies |-> <<
      [id |-> "G", initialConcentration |-> Dec(0, 0)],
      [id |-> "T", initialConcentration |-> Dec(0, 0)],
      [id |-> "P", initialConcentration |-> Dec(0, 0)],
      [id |-> "complex_G_P_", initialConcentration |-> Dec(0, 0)]>>,
   listOfParameters |-> <<>>,
   listOfReactions |-> <<
      [id |-> "r0", reversible |-> FALSE,
       PropensityType |-> [k |-> "k_forward", type |-> "massaction"],
       listOfReactants |-> <<[species |-> "G", stoichiometry |-> 1], [species |-> "P", stoichiometry |-> 1]>>,
       listOfProducts |-> <<[species |-> "complex_G_P_", stoichiometry |-> 1]>>,
       math |-> <<>>,
       listOfLocalParameters |-> ("k_forward" :> Dec(10, 0))],
      [id |-> "r0rev", reversible |-> FALSE,
       PropensityType |-> [k |-> "k_reverse", type |-> "massaction"],
       listOfReactants |-> <<[species |-> "complex_G_P_", stoichiometry |-> 1]>>,
       listOfProducts |-> <<[species |-> "G", stoichiometry |-> 1], [species |-> "P", stoichiometry |-> 1]>>,
       math |-> <<>>,
       listOfLocalParameters |-> ("k_reverse" :> Dec(100, 0))],
      [id |-> "r1", reversible |-> FALSE,
       PropensityType |-> [k |-> "k_forward", type |-> "massaction"],
       listOfReactants |-> <<[species |-> "complex_G_P_", stoichiometry |-> 1]>>,
       listOfProducts |-> <<[species |-> "T", stoichiometry |-> 1], [species |-> "G", stoichiometry |-> 1], [species |-> "P", stoichiometry |-> 1]>>,
       math |-> <<>>,
       listOfLocalParameters |-> ("k_forward" :> Dec(15, 2))]>>]

\* The fixture files; model1.xml holds two documents
FixtureFiles ==
  ("part_000" :> <<Part000>>) @@
  ("model1.xml" :> <<Model1_first, Model1_second>>) @@
  ("model4.xml" :> <<Model4>>) @@
  ("model5.xml" :> <<Model5>>)

\* The files beside the notebook before it runs, each a sequence of documents
Directory ==
  [f \in {"model1.xml", "model4.xml", "model5.xml"} |-> FixtureFiles[f]]

FixtureDocuments ==
  UNION {{[file |-> f, index |-> i, document |-> FixtureFiles[f][i]] :
            i \in DOMAIN FixtureFiles[f]} : f \in DOMAIN FixtureFiles}

----------------------------------------------------------------------------
(* The simulator's model: species, reactions, parameters, initial values *)

\* Model(species, reactions, parameters, initial_condition_dict)
Model(sp, rx, pa, ic) ==
  [species |-> sp,
   reactions |-> [i \in DOMAIN rx |->
                    [reactants |-> rx[i][1], products |-> rx[i][2],
                     type |-> rx[i][3], params |-> rx[i][4], local |-> <<>>]],
   parameters |-> pa,
   initial_condition |-> ic]

\* Every species starts at its initial-condition value, or at 0 without one
InitialState(model) ==
  [s \in Range(model.species) |->
     IF s \in DOMAIN model.initial_condition
     THEN model.initial_condition[s] ELSE 0]

\* The species a reaction's rate law names besides its reactants
LawSpecies(r) ==
  IF r.type = "proportionalhillpositive" THEN {r.params.s1, r.params.d} ELSE {}

\* The symbolic parameter names a reaction's rate law uses
LawParameters(r) ==
  IF r.type = "proportionalhillpositive" THEN {r.params.k, r.params.K}
  ELSE {r.params.k}

\* A symbolic parameter: the reaction's own local value first, then the
\* model's parameter mapping
Resolves(model, r, name) ==
  name \in DOMAIN r.local \/ name \in DOMAIN model.parameters

Resolve(model, r, name) ==
  IF name \in DOMAIN r.local THEN r.local[name] ELSE model.parameters[name]

RECURSIVE MassAction(_, _, _)
MassAction(k, reactants, x) ==
  IF reactants = <<>> THEN k
  ELSE MulUnit(MassAction(k, Tail(reactants), x), x[Head(reactants)])

\* k * d * s1^n / (K + s1^n)
ProportionalHillPositive(k, K, n, s1, d) ==
  (MulUnit(k, d) * PowUnit(s1, n)) \div (K + PowUnit(s1, n))

\* The rate of reaction r in state x
Propensity(model, r, x) ==
  IF r.type = "massaction"
  THEN MassAction(Resolve(model, r, r.params.k), r.reactants, x)
  ELSE ProportionalHillPositive(Resolve(model, r, r.params.k),
                                Resolve(model, r, r.params.K),
                                r.params.n, x[r.params.s1], x[r.params.d])

\* Net stoichiometry of species s in reaction r
Net(r, s) == Count(r.products, s) - Count(r.reactants, s)

RECURSIVE Flux(_, _, _, _)
Flux(model, x, s, i) ==
  IF i = 0 THEN 0
  ELSE Flux(model, x, s, i - 1)
       + Propensity(model, model.reactions[i], x) * Net(model.reactions[i], s)

\* Deterministic mode: one integration step over one time unit, the spacing
\* of the emitted time points (the unit's internal_dt sub-steps are not
\* resolved)
DeterministicStep(model, x) ==
  [s \in DOMAIN x |-> x[s] + Flux(model, x, s, Len(model.reactions))]

\* Stochastic mode: reaction r fires once
Fired(r, x) == [s \in DOMAIN x |-> x[s] + Net(r, s) * Unit]

----------------------------------------------------------------------------
(* SBML interchange *)

\* Reactions are numbered from r0 in list order
ReactionId(i) == "r" \o ToString(i - 1)

SpeciesReferences(names) ==
  [i \in DOMAIN names |-> [species |-> names[i], stoichiometry |-> 1]]

RECURSIVE Expand(_)
Expand(refs) ==
  IF refs = <<>> THEN <<>>
  ELSE [i \in 1..Head(refs).stoichiometry |-> Head(refs).species]
       \o Expand(Tail(refs))

\* model.write_sbml_model(file): the document written for a model
WriteSBML(model) ==
  LET names == SetToSeq(DOMAIN model.parameters) IN
  [level |-> 3, version |-> 2,
   listOfSpecies |->
     [i \in DOMAIN model.species |->
        [id |-> model.species[i],
         initialConcentration |-> Text(InitialState(model)[model.species[i]])]],
   listOfParameters |->
     [i \in DOMAIN names |->
        [id |-> names[i], value |-> Text(model.parameters[names[i]])]],
   listOfReactions |->
     [i \in DOMAIN model.reactions |->
        LET r == model.reactions[i] IN
        [id |-> ReactionId(i), reversible |-> FALSE,
         PropensityType |-> [type |-> r.type] @@ r.params,
         listOfReactants |-> SpeciesReferences(r.reactants),
         listOfProducts |-> SpeciesReferences(r.products),
         math |-> <<>>,
         listOfLocalParameters |->
           [p \in DOMAIN r.local |-> Text(r.local[p])]]]]

\* The model the simulator builds from an SBML document
ReadSBML(doc) ==
  [species |-> [i \in DOMAIN doc.listOfSpecies |-> doc.listOfSpecies[i].id],
   reactions |->
     [i \in DOMAIN doc.listOfReactions |->
        LET r == doc.listOfReactions[i] IN
        [reactants |-> Expand(r.listOfReactants),
         products |-> Expand(r.listOfProducts),
         type |-> r.PropensityType.type,
         params |-> [f \in DOMAIN r.PropensityType \ {"type"} |->
                       r.PropensityType[f]],
         local |-> [p \in DOMAIN r.listOfLocalParameters |->
                      Quantity(r.listOfLocalParameters[p])]]],
   parameters |->
     [p \in {doc.listOfParameters[i].id : i \in DOMAIN doc.listOfParameters} |->
        Quantity((CHOOSE e \in Range(doc.listOfParameters) : e.id = p).value)],
   initial_condition |->
     [s \in {doc.listOfSpecies[i].id : i \in DOMAIN doc.listOfSpecies} |->
        Quantity((CHOOSE e \in Range(doc.listOfSpecies) : e.id = s)
                   .initialConcentration)]]

----------------------------------------------------------------------------
(* The simulation unit and the experiment runner *)

\* Bioscrape(parameters = p): the unit wraps the model instance it is given,
\* or the model read from the SBML file it is given
Bioscrape(p, disk) ==
  [model |-> IF "bioscrape_model" \in DOMAIN p THEN p.bioscrape_model
             ELSE ReadSBML(Head(disk[p.sbml_file])),
   internal_dt |-> p.internal_dt,
   stochastic |-> p.stochastic,
   initial_volume |-> p.initial_volume]

\* Variant: the state after a step is emitted under the time before it
Emit_stale_time(timeseries, t, x) ==
  [time |-> Append(timeseries.time, t - 1),
   species |-> [s \in DOMAIN x |-> Append(timeseries.species[s], x[s])]]

\* What the experiment has emitted: time points and per-species values
Emit(timeseries, t, x) ==
  [time |-> Append(timeseries.time, t),
   species |-> [s \in DOMAIN x |-> Append(timeseries.species[s], x[s])]]

\* simulate_process_in_experiment(process, settings), on entry: the
\* experiment starts at time 0 from settings' initial state and emits it
StartExperiment(name, process, settings) ==
  [process |-> name,
   unit |-> process,
   settings |-> settings,
   total_time |-> settings.total_time,
   time |-> 0,
   state |-> settings.initial_state,
   timeseries |-> [time |-> <<0>>,
                   species |-> [s \in DOMAIN settings.initial_state |->
                                  <<settings.initial_state[s]>>]]]

\* Variant: the loop runs over the keys of initial_condition
Plot_initial_condition(out) ==
  LET order == SetToSeq(DOMAIN initial_condition) IN
  [i \in DOMAIN order |->
     [label |-> order[i], x |-> out.time, y |-> out.species[order[i]]]]

\* for s in output["species"]: plt.plot(output["time"], output["species"][s],
\* label = s): one curve per key of the output mapping
Plot(out) ==
  LET order == SetToSeq(DOMAIN out.species) IN
  [i \in DOMAIN order |->
     [label |-> order[i], x |-> out.time, y |-> out.species[order[i]]]]

\* What the library accepts: every species a reaction names is declared and
\* every symbolic rate parameter resolves
WellFormed(model) ==
  \A i \in DOMAIN model.reactions :
    LET r == model.reactions[i] IN
    /\ Range(r.reactants) \cup Range(r.products) \cup LawSpecies(r)
         \subseteq Range(model.species)
    /\ \A name \in LawParameters(r) : Resolves(model, r, name)

\* A file the SBML reader accepts: it exists, holds one document, and the
\* document's model is well formed
Readable(disk, file) ==
  /\ file \in DOMAIN disk
  /\ Len(disk[file]) = 1
  /\ WellFormed(ReadSBML(Head(disk[file])))

\* The literals of the notebook as it is written
Notebook ==
  [species |-> species,
   reactions |-> reactions,
   parameters |-> rate_parameters,
   initial_condition |-> initial_condition,
   sbml_parameters |-> sbml_parameters]

NotStarted == [process |-> "", time |-> 0]
NoTraceback == [cell |-> "", error |-> ""]
NoOutput == [time |-> <<>>]
NoCrn == [source |-> "", index |-> 0]

----------------------------------------------------------------------------
(* The notebook, cell by cell *)

Init ==
  /\ pc = "cell2"
  /\ M = <<>>
  /\ parameters = <<>>
  /\ bioscrape_process = <<>>
  /\ bvp = <<>>
  /\ initial_state = <<>>
  /\ sim_settings = <<>>
  /\ experiment = NotStarted
  /\ output = NoOutput
  /\ files = Directory
  /\ figures = <<>>
  /\ runs = <<>>
  /\ inputs = Notebook
  /\ traceback = NoTraceback
  /\ crn = NoCrn

\* Cell 2: build the model, rebind `parameters` to the unit's configuration,
\* build the unit
Cell2 ==
  /\ pc = "cell2"
  /\ LET model == Model(inputs.species, inputs.reactions, inputs.parameters,
                        inputs.initial_condition)
     IN /\ WellFormed(model)
        /\ M' = model
        /\ parameters' = model_parameters(model)
        /\ bioscrape_process' = Bioscrape(model_parameters(model), files)
  /\ pc' = "cell3"
  /\ UNCHANGED <<bvp, initial_state, sim_settings, experiment, output, files,
                 figures, runs, crn,
                 inputs, traceback>>

\* Cell 3, up to the call of the runner on bioscrape_process
Cell3 ==
  /\ pc = "cell3"
  /\ LET state == InitialState(bioscrape_process.model)
         settings == [total_time |-> total_time, initial_state |-> state]
     IN /\ initial_state' = state
        /\ sim_settings' = settings
        /\ experiment' =
             StartExperiment("bioscrape_process", bioscrape_process, settings)
  /\ pc' = "run1"
  /\ UNCHANGED <<M, parameters, bioscrape_process, bvp, output, files,
                 figures, runs, crn,
                 inputs, traceback>>

\* Inside the runner: the unit advances by one time step and the new state
\* is emitted
ExperimentStep ==
  /\ pc \in {"run1", "run2"}
  /\ experiment.time < experiment.total_time
  /\ LET x == DeterministicStep(experiment.unit.model, experiment.state)
         t == experiment.time + 1
     IN experiment' = [experiment EXCEPT
                         !.time = t, !.state = x,
                         !.timeseries = Emit(experiment.timeseries, t, x)]
  /\ UNCHANGED <<pc, M, parameters, bioscrape_process, bvp, initial_state,
                 sim_settings, output, files, figures, runs, crn,
                 inputs, traceback>>

\* Variant: the run leaves its final state in the model as initial condition
PlotOutput_model_updated(next) ==
  /\ experiment.time = experiment.total_time
  /\ output' = experiment.timeseries
  /\ figures' = Append(figures, Plot(experiment.timeseries))
  /\ runs' = Append(runs, [process |-> experiment.process,
                            unit |-> experiment.unit,
                            settings |-> experiment.settings,
                            timeseries |-> experiment.timeseries])
  /\ M' = [M EXCEPT !.initial_condition = experiment.state]
  /\ pc' = next
  /\ UNCHANGED <<parameters, bioscrape_process, bvp, initial_state,
                 sim_settings, experiment, files, crn, inputs,
                 traceback>>

\* The runner returns; the rest of the cell plots the output
PlotOutput(next) ==
  /\ experiment.time = experiment.total_time
  /\ output' = experiment.timeseries
  /\ figures' = Append(figures, Plot(experiment.timeseries))
  /\ runs' = Append(runs, [process |-> experiment.process,
                            unit |-> experiment.unit,
                            settings |-> experiment.settings,
                            timeseries |-> experiment.timeseries])
  /\ pc' = next
  /\ UNCHANGED <<M, parameters, bioscrape_process, bvp, initial_state,
                 sim_settings, experiment, files, crn, inputs,
                 traceback>>

Cell3Plot == pc = "run1" /\ PlotOutput("cell4")

\* Cell 4: M.write_sbml_model("sbml_model.xml")
Cell4 ==
  /\ pc = "cell4"
  /\ files' = (written_file :> <<WriteSBML(M)>>) @@ files
  /\ pc' = "cell5"
  /\ UNCHANGED <<M, parameters, bioscrape_process, bvp, initial_state,
                 sim_settings, experiment, output, figures, runs, crn,
                 inputs, traceback>>

\* Cell 5: rebind `parameters` to the SBML configuration, build bvp from it
Cell5 ==
  /\ pc = "cell5"
  /\ Readable(files, inputs.sbml_parameters.sbml_file)
  /\ parameters' = inputs.sbml_parameters
  /\ bvp' = Bioscrape(inputs.sbml_parameters, files)
  /\ pc' = "cell6"
  /\ UNCHANGED <<M, bioscrape_process, initial_state, sim_settings,
                 experiment, output, files, figures, runs, crn,
                 inputs, traceback>>

\* Variant: the second run is started from where the first one ended
Cell6_resumed ==
  /\ pc = "cell6"
  /\ experiment' =
       StartExperiment("bioscrape_process", bioscrape_process,
                       [sim_settings EXCEPT !.initial_state = experiment.state])
  /\ pc' = "run2"
  /\ UNCHANGED <<M, parameters, bioscrape_process, bvp, initial_state,
                 sim_settings, output, files, figures, runs, crn,
                 inputs, traceback>>

\* Cell 6, up to the call of the runner: it is handed bioscrape_process
Cell6 ==
  /\ pc = "cell6"
  /\ experiment' =
       StartExperiment("bioscrape_process", bioscrape_process, sim_settings)
  /\ pc' = "run2"
  /\ UNCHANGED <<M, parameters, bioscrape_process, bvp, initial_state,
                 sim_settings, output, files, figures, runs, crn,
                 inputs, traceback>>

Cell6Plot == pc = "run2" /\ PlotOutput("done")

Next ==
  \/ Cell2
  \/ Cell3
  \/ ExperimentStep
  \/ Cell3Plot
  \/ Cell4
  \/ Cell5
  \/ Cell6
  \/ Cell6Plot

Spec == Init /\ [][Next]_vars

\* The kernel runs each cell to its end and the runner's loop keeps stepping:
\* a step that can be taken is eventually taken
FairSpec == Spec /\ WF_vars(Next)

----------------------------------------------------------------------------
(* The notebook run on edited literals: a cell whose library call raises   *)
(* ends the execution, since no cell catches anything                      *)

SpeciesChoices == {species, SubSeq(species, 1, Len(species) - 1)}

ParameterChoices ==
  {rate_parameters,
   [p \in DOMAIN rate_parameters \ {"K"} |-> rate_parameters[p]]}

FileChoices == {written_file, "model1.xml", "model5.xml", "model0.xml"}

FaultInputs ==
  {[Notebook EXCEPT !.species = sp, !.parameters = pa,
                    !.sbml_parameters = [@ EXCEPT !.sbml_file = f]] :
     sp \in SpeciesChoices, pa \in ParameterChoices, f \in FileChoices}

FaultInit ==
  /\ pc = "cell2"
  /\ M = <<>>
  /\ parameters = <<>>
  /\ bioscrape_process = <<>>
  /\ bvp = <<>>
  /\ initial_state = <<>>
  /\ sim_settings = <<>>
  /\ experiment = NotStarted
  /\ output = NoOutput
  /\ files = Directory
  /\ figures = <<>>
  /\ runs = <<>>
  /\ inputs \in FaultInputs
  /\ traceback = NoTraceback
  /\ crn = NoCrn

\* Cell 2 on a malformed model: Model(...) raises after `parameters` is
\* bound to the rate parameters, or Bioscrape(...) raises after M and the
\* configuration are bound; nothing after the raising call runs
Cell2Raises ==
  /\ pc = "cell2"
  /\ LET model == Model(inputs.species, inputs.reactions, inputs.parameters,
                        inputs.initial_condition)
     IN /\ ~WellFormed(model)
        /\ \/ /\ parameters' = inputs.parameters
              /\ M' = M
              /\ traceback' = [cell |-> "cell2", error |-> "Model"]
           \/ /\ parameters' = model_parameters(model)
              /\ M' = model
              /\ traceback' = [cell |-> "cell2", error |-> "Bioscrape"]
  /\ pc' = "error"
  /\ UNCHANGED <<bioscrape_process, bvp, initial_state, sim_settings,
                 experiment, output, files, figures, runs, crn, inputs>>

\* Variant: the failed read is caught and the first unit stands in for bvp
Cell5Raises_handled ==
  /\ pc = "cell5"
  /\ ~Readable(files, inputs.sbml_parameters.sbml_file)
  /\ parameters' = inputs.sbml_parameters
  /\ bvp' = bioscrape_process
  /\ pc' = "cell6"
  /\ UNCHANGED <<M, bioscrape_process, initial_state, sim_settings,
                 experiment, output, files, figures, runs, crn, inputs,
                 traceback>>

\* Cell 5 on a file the reader rejects: Bioscrape(...) raises after
\* `parameters` is rebound; bvp stays unbound
Cell5Raises ==
  /\ pc = "cell5"
  /\ ~Readable(files, inputs.sbml_parameters.sbml_file)
  /\ parameters' = inputs.sbml_parameters
  /\ traceback' =
       [cell |-> "cell5",
        error |-> IF inputs.sbml_parameters.sbml_file \in DOMAIN files
                  THEN "sbml" ELSE "file"]
  /\ pc' = "error"
  /\ UNCHANGED <<M, bioscrape_process, bvp, initial_state, sim_settings,
                 experiment, output, files, figures, runs, crn, inputs>>

FaultNext ==
  \/ Next
  \/ Cell2Raises
  \/ Cell5Raises

FaultSpec == FaultInit /\ [][FaultNext]_vars

----------------------------------------------------------------------------
(* A reaction network explored in stochastic mode: the notebook's model or *)
(* a fixture document, one reaction firing per step                        *)

SampleModel == Model(species, reactions, rate_parameters, initial_condition)

CrnOf(source, index, model) ==
  [source |-> source, index |-> index, model |-> model,
   initial |-> InitialState(model), counts |-> InitialState(model)]

CrnInit ==
  /\ pc = "crn"
  /\ M = <<>>
  /\ parameters = <<>>
  /\ bioscrape_process = <<>>
  /\ bvp = <<>>
  /\ initial_state = <<>>
  /\ sim_settings = <<>>
  /\ experiment = NotStarted
  /\ output = NoOutput
  /\ files = Directory
  /\ figures = <<>>
  /\ runs = <<>>
  /\ inputs = Notebook
  /\ traceback = NoTraceback
  /\ \/ crn = CrnOf("notebook", 1, SampleModel)
     \/ \E d \in FixtureDocuments :
          crn = CrnOf(d.file, d.index, ReadSBML(d.document))

\* Reaction i fires: its rate is positive, and no species outgrows the bound
Fire(i) ==
  LET r == crn.model.reactions[i]
      x == Fired(r, crn.counts)
  IN /\ pc = "crn"
     /\ Propensity(crn.model, r, crn.counts) > 0
     /\ \A s \in DOMAIN x : x[s] <= crn.initial[s] + MaxCount * Unit
     /\ crn' = [crn EXCEPT !.counts = x]
     /\ UNCHANGED <<pc, M, parameters, bioscrape_process, bvp, initial_state,
                    sim_settings, experiment, output, files, figures,
                    runs, inputs, traceback>>

CrnNext == \E i \in DOMAIN crn.model.reactions : Fire(i)

CrnSpec == CrnInit /\ [][CrnNext]_vars

----------------------------------------------------------------------------
(* Properties *)

\* The cells in execution order
PcRank ==
  ("crn" :> 0) @@ ("error" :> 1) @@ ("cell2" :> 2) @@ ("cell3" :> 3) @@ ("run1" :> 4) @@
  ("cell4" :> 5) @@ ("cell5" :> 6) @@ ("cell6" :> 7) @@ ("run2" :> 8) @@
  ("done" :> 9)

Reached(cell) == PcRank[pc] >= PcRank[cell]

Running == pc \in {"run1", "run2"}

C2_SecondRunSimulatesReloadedUnit ==
  Reached("run2") => experiment.process = "bvp" /\ experiment.unit = bvp

C4_NonNegative ==
  (Running /\ ~experiment.unit.stochastic
     /\ experiment.settings.initial_state
          = ("G" :> Unit) @@ ("R" :> 100 * Unit) @@ ("T" :> 0) @@ ("P" :> 0))
  => \A s \in DOMAIN experiment.timeseries.species :
       \A i \in DOMAIN experiment.timeseries.species[s] :
         experiment.timeseries.species[s][i] >= 0

C4_Witness ==
  /\ pc = "run1"
  /\ experiment.time = total_time
  /\ experiment.settings.initial_state
       = ("G" :> Unit) @@ ("R" :> 100 * Unit) @@ ("T" :> 0) @@ ("P" :> 0)
  /\ experiment.state["T"] > 0
  /\ experiment.state["P"] > 0

\* C5: in a stochastic exploration of the sample model every species count
\* is a non-negative whole number in every reachable state.
C5_CountsNonNegative ==
  crn.source = "notebook" =>
    \A s \in DOMAIN crn.counts :
      crn.counts[s] >= 0 /\ crn.counts[s] % Unit = 0

C5_Witness ==
  /\ crn.source = "notebook"
  /\ crn.counts["T"] = 0
  /\ crn.counts["P"] = 2 * Unit

\* C6: the translation reaction has rate k_tl * R * T / (K + T).
C6_TranslationRateIsHillOfT ==
  Running =>
    Propensity(experiment.unit.model, experiment.unit.model.reactions[2],
               experiment.state)
    = ProportionalHillPositive(rate_parameters.k_tl, rate_parameters.K, 1,
                               experiment.state["T"], experiment.state["R"])

\* The species some reaction of the model removes on balance
Degraded(model) ==
  {s \in Range(model.species) :
     \E i \in DOMAIN model.reactions : Net(model.reactions[i], s) < 0}

\* The reactions s -> (nothing) with mass-action rate delta * s
Dilutions(model, s) ==
  {i \in DOMAIN model.reactions :
     /\ model.reactions[i].reactants = <<s>>
     /\ model.reactions[i].products = <<>>
     /\ model.reactions[i].type = "massaction"
     /\ model.reactions[i].params.k = "delta"}

\* C7: exactly T and P are degraded, each by one mass-action reaction with
\* no products and rate constant delta; every reaction returns the G and R
\* it takes.
C7_OnlyTandPDegraded ==
  Reached("cell3") =>
    /\ Degraded(M) = Range(M.species) \ {"G", "R"}
    /\ \A s \in Range(M.species) \ {"G", "R"} :
         /\ Cardinality(Dilutions(M, s)) = 1
         /\ \A i \in DOMAIN M.reactions :
              Net(M.reactions[i], s) < 0 => i \in Dilutions(M, s)
    /\ \A i \in DOMAIN M.reactions : \A s \in {"G", "R"} :
         Count(M.reactions[i].reactants, s) <= Count(M.reactions[i].products, s)

C7_Witness ==
  /\ pc = "cell3"
  /\ Len(M.reactions) = 4
  /\ Degraded(M) = {"T", "P"}

\* C8: the unit's initial state is {G: 1.0, R: 100, T: 0, P: 0}: the
\* initial-condition value where one is given, 0 for every other species.
C8_InitialState ==
  Reached("run1") =>
    /\ initial_state
         = ("G" :> Unit) @@ ("R" :> 100 * Unit) @@ ("T" :> 0) @@ ("P" :> 0)
    /\ \A s \in Range(M.species) :
         initial_state[s] = IF s \in DOMAIN M.initial_condition
                            THEN M.initial_condition[s] ELSE 0

C8_Witness ==
  /\ pc = "run1"
  /\ experiment.time = 0
  /\ experiment.state = initial_state
  /\ DOMAIN initial_state = {"G", "T", "P", "R"}

\* The species a reaction refers to
Referenced(r) == Range(r.reactants) \cup Range(r.products) \cup LawSpecies(r)

\* C9: every species a reaction names as reactant, product, s1 or d is in
\* the species set of its model, in the sample model and in every fixture.
C9_SpeciesDeclared ==
  pc = "crn" =>
    \A i \in DOMAIN crn.model.reactions :
      Referenced(crn.model.reactions[i]) \subseteq Range(crn.model.species)

C9_Witness ==
  /\ crn.source = "part_000"
  /\ crn.counts["complex_protein_RNAase_rna_T_"] > 0
  /\ "complex_protein_RNAase_rna_T_" \in Referenced(crn.model.reactions[3])

\* C10: every symbolic rate parameter of a reaction resolves, in the model's
\* parameter mapping or in the reaction's own local parameters.
C10_ParametersResolve ==
  pc = "crn" =>
    \A i \in DOMAIN crn.model.reactions :
      \A name \in LawParameters(crn.model.reactions[i]) :
        Resolves(crn.model, crn.model.reactions[i], name)

C10_Witness ==
  /\ crn.source = "model4.xml"
  /\ "k_forward" \in DOMAIN crn.model.reactions[1].local
  /\ "k_forward" \notin DOMAIN crn.model.parameters

\* The keys of a configuration that name the model's source
ModelSources(config) == DOMAIN config \cap {"bioscrape_model", "sbml_file"}

\* C11: every simulation-unit configuration has exactly one of the keys
\* bioscrape_model and sbml_file, and the keys internal_dt, stochastic and
\* initial_volume.
C11_OneModelSource ==
  Reached("cell3") =>
    /\ Cardinality(ModelSources(parameters)) = 1
    /\ {"internal_dt", "stochastic", "initial_volume"} \subseteq DOMAIN parameters
    /\ (pc \in {"cell3", "run1", "cell4", "cell5"})
         => ModelSources(parameters) = {"bioscrape_model"}
    /\ Reached("cell6") => ModelSources(parameters) = {"sbml_file"}

C11_Witness ==
  /\ pc = "cell6"
  /\ DOMAIN parameters
       = {"sbml_file", "internal_dt", "stochastic", "initial_volume"}
  /\ bvp.internal_dt = parameters.internal_dt

\* The species values a time series holds at its i-th time point
Column(timeseries, i) ==
  [s \in DOMAIN timeseries.species |-> timeseries.species[s][i]]

\* Every value sequence is as long as the time sequence, and time increases
Aligned(timeseries) ==
  /\ \A s \in DOMAIN timeseries.species :
       Len(timeseries.species[s]) = Len(timeseries.time)
  /\ \A i \in 1..(Len(timeseries.time) - 1) :
       timeseries.time[i] < timeseries.time[i + 1]

\* C12: in the output of a run every species' value sequence is as long as
\* the time sequence, the time points increase, and the i-th values are the
\* state at the i-th time point: the last column is the state the run is in
\* at the last time point, and in the returned output each column follows
\* from the column before it by one step, from the initial state at time 0.
C12_OutputAligned ==
  /\ Running =>
       /\ Aligned(experiment.timeseries)
       /\ experiment.timeseries.time[Len(experiment.timeseries.time)]
            = experiment.time
       /\ Column(experiment.timeseries, Len(experiment.timeseries.time))
            = experiment.state
  /\ Reached("cell4") =>
       /\ Aligned(output)
       /\ DOMAIN output.species = Range(M.species)
  /\ pc \in {"cell4", "done"} =>
       /\ output.time[1] = 0
       /\ Column(output, 1) = sim_settings.initial_state
       /\ \A i \in 1..(Len(output.time) - 1) :
            /\ output.time[i + 1] = output.time[i] + 1
            /\ Column(output, i + 1)
                 = DeterministicStep(bioscrape_process.model, Column(output, i))

C12_Witness ==
  /\ pc = "cell4"
  /\ Len(output.time) = total_time + 1
  /\ \A s \in {"G", "T", "P", "R"} : Len(output.species[s]) = total_time + 1
  /\ output.species["T"][total_time + 1] > output.species["T"][2]

\* The labels of a figure's curves
Labels(figure) == {figure[i].label : i \in DOMAIN figure}

\* C13: after each run the plot has exactly one curve per species: the
\* labels are G, T, P, R, none missing and none twice.
C13_OneCurvePerSpecies ==
  /\ Len(figures) = (IF Reached("cell4") THEN 1 ELSE 0)
                    + (IF pc = "done" THEN 1 ELSE 0)
  /\ \A f \in DOMAIN figures :
       /\ Labels(figures[f]) = {"G", "T", "P", "R"}
       /\ Labels(figures[f]) = Range(M.species)
       /\ Len(figures[f]) = Cardinality(Labels(figures[f]))
       /\ \A i \in DOMAIN figures[f] :
            /\ figures[f][i].x = runs[f].timeseries.time
            /\ figures[f][i].y = runs[f].timeseries.species[figures[f][i].label]

C13_Witness ==
  /\ pc = "done"
  /\ Len(figures) = 2
  /\ Len(figures[2]) = 4
  /\ Len(figures[2][1].y) = total_time + 1

\* The files the notebook has added to its directory
Written == DOMAIN files \ DOMAIN Directory

\* C14: sbml_model.xml is written before the unit that reads it is built,
\* it is the only file the workflow writes, and no step reads it before it
\* exists: up to the end of cell 4 the directory is as it was found and bvp
\* is unbound; from then on the one added file is the one cell 5 names, it
\* holds the written model, the fixture files are untouched, and bvp, once
\* bound, is the unit built from that file.
C14_WrittenBeforeRead ==
  /\ ~Reached("cell5") => (files = Directory /\ bvp = <<>>)
  /\ Reached("cell5") =>
       /\ Written = {sbml_parameters.sbml_file}
       /\ files[sbml_parameters.sbml_file] = <<WriteSBML(M)>>
       /\ \A f \in DOMAIN Directory : files[f] = Directory[f]
  /\ pc = "cell5" => bvp = <<>>
  /\ Reached("cell6") => bvp = Bioscrape(sbml_parameters, files)

C14_Witness ==
  /\ pc = "run2"
  /\ Written = {"sbml_model.xml"}
  /\ bvp.model = ReadSBML(WriteSBML(M))
  /\ Len(runs) = 1

\* What a failed execution leaves behind, and what a cell that ran implies
Propagated ==
  /\ (pc = "error") <=> (traceback # NoTraceback)
  /\ Reached("cell3") => WellFormed(M)
  /\ Reached("cell6") => Readable(files, inputs.sbml_parameters.sbml_file)
  /\ traceback.cell = "cell2" =>
       /\ bioscrape_process = <<>>
       /\ experiment = NotStarted
       /\ output = NoOutput
       /\ files = Directory
       /\ figures = <<>>
       /\ runs = <<>>
  /\ traceback.cell = "cell5" =>
       /\ bvp = <<>>
       /\ Len(runs) = 1
       /\ Len(figures) = 1
       /\ experiment.process = runs[1].process
       /\ experiment.timeseries = output

UniqueIds(list) ==
  \A i, j \in DOMAIN list : list[i].id = list[j].id => i = j

\* One SBML Level 3 Version 2 document with unique species and reaction ids
StandardDocument(doc) ==
  /\ doc.level = 3
  /\ doc.version = 2
  /\ UniqueIds(doc.listOfSpecies)
  /\ UniqueIds(doc.listOfReactions)

\* C16: every model*.xml file beside the notebook is a single XML document
\* with one sbml root (level 3, version 2) holding one model whose species
\* ids and reaction ids are unique.
C16_OneDocumentPerFixture ==
  \A f \in DOMAIN Directory :
    /\ Len(files[f]) = 1
    /\ \A i \in DOMAIN files[f] : StandardDocument(files[f][i])

\* The model as cell 2 constructs it
Constructed == Model(species, reactions, rate_parameters, initial_condition)

\* C17: the model is immutable once constructed: after cell 2, through both
\* experiment runs, the SBML write and both rebindings of `parameters`, M
\* holds the species, reactions, rate parameter values and initial-condition
\* values it was constructed with.
C17_ModelImmutable ==
  Reached("cell3") =>
    /\ M.species = Constructed.species
    /\ M.reactions = Constructed.reactions
    /\ M.parameters = Constructed.parameters
    /\ M.initial_condition = Constructed.initial_condition
    /\ parameters # M.parameters

C17_Witness ==
  /\ pc = "done"
  /\ Len(runs) = 2
  /\ written_file \in DOMAIN files
  /\ parameters = sbml_parameters
  /\ M.parameters = rate_parameters

\* The state the notebook passes to both runs
Start == ("G" :> Unit) @@ ("R" :> 100 * Unit) @@ ("T" :> 0) @@ ("P" :> 0)

\* C18: runs share no mutable state: the second run, given the same
\* sim_settings and initial_state as the first, starts at time 0 from
\* {G:1.0, R:100, T:0, P:0}, not from where the first run ended.
C18_SecondRunStartsAfresh ==
  /\ Reached("run1") => (initial_state = Start /\ sim_settings.initial_state = Start)
  /\ Reached("run2") =>
       /\ experiment.settings = runs[1].settings
       /\ experiment.timeseries.time[1] = 0
       /\ Column(experiment.timeseries, 1) = Start
  /\ (pc = "run2" /\ Len(experiment.timeseries.time) = 1) =>
       (experiment.time = 0 /\ experiment.state = Start)

C18_Witness ==
  /\ pc = "run2"
  /\ experiment.time = 0
  /\ experiment.state["P"] = 0
  /\ runs[1].timeseries.time[total_time + 1] = total_time
  /\ runs[1].timeseries.species["P"][total_time + 1] > 0

\* The last time point a time series holds
LastTime(timeseries) == timeseries.time[Len(timeseries.time)]

\* While a run is under way its clock is within the duration and is the
\* last time point emitted; a returned output ends at the duration
WithinDuration ==
  /\ Running =>
       /\ experiment.time \in 0..total_time
       /\ experiment.total_time = total_time
       /\ LastTime(experiment.timeseries) = experiment.time
       /\ Len(experiment.timeseries.time) = experiment.time + 1
  /\ Reached("cell4") =>
       /\ LastTime(output) = total_time
       /\ Len(output.time) = total_time + 1
       /\ total_time = 1000

\* C19: an experiment run terminates: from time 0 the run reaches the total
\* duration total_time = 1000 after finitely many steps and returns, it
\* never goes past the duration, and the last time point of its output is
\* the total duration.
C19_RunTerminates ==
  /\ []WithinDuration
  /\ (pc = "run1") ~> (pc = "cell4")
  /\ (pc = "run2") ~> (pc = "done")

C19_Witness ==
  /\ pc = "done"
  /\ experiment.time = 1000
  /\ LastTime(output) = 1000
  /\ output.time[1] = 0

\* The fixture document a reaction network was read from
Document == FixtureFiles[crn.source][crn.index]

\* How often species s appears among the reactants of r
Order(r, s) ==
  Cardinality({j \in DOMAIN r.listOfReactants :
                 r.listOfReactants[j].species = s})

\* The factors of r's law are its rate constant once and each reactant as
\* often as the reaction consumes it, and nothing else
MassActionLaw(r) ==
  /\ r.PropensityType.type = "massaction"
  /\ \A j \in DOMAIN r.listOfReactants : r.listOfReactants[j].stoichiometry = 1
  /\ Len(r.math) = 1 + Len(r.listOfReactants)
  /\ Count(r.math, r.PropensityType.k) = 1
  /\ \A j \in DOMAIN r.listOfReactants :
       Count(r.math, r.listOfReactants[j].species)
         = Order(r, r.listOfReactants[j].species)

\* C20: every reaction of an SBML fixture that carries a MathML kinetic law
\* has the mass-action law of that reaction: the product of the rate
\* constant its PropensityType annotation names and each of its reactant
\* species exactly once, with no other factor.
C20_LawsAreMassAction ==
  (pc = "crn" /\ crn.source \in DOMAIN FixtureFiles) =>
    \A i \in DOMAIN Document.listOfReactions :
      Document.listOfReactions[i].math # <<>>
        => MassActionLaw(Document.listOfReactions[i])

C20_Witness ==
  /\ crn.source = "part_000"
  /\ Document.listOfReactions[3].math = <<"kb__", "rna_T", "protein_RNAase">>
  /\ Len(Document.listOfReactions[3].listOfReactants) = 2
  /\ crn.counts # crn.initial

\* C21: in a run of the sample model protein is only made from transcript:
\* a step of the run that increases P starts in a state where T > 0.
C21_ProteinOnlyFromTranscript ==
  [][(Running /\ pc' = pc /\ experiment'.state["P"] > experiment.state["P"])
       => experiment.state["T"] > 0]_vars

\* The value the rate constant of reaction i resolves to
RateConstant(model, i) ==
  Resolve(model, model.reactions[i], model.reactions[i].params.k)

\* The pairs of reactions that name the same rate constant with two values
TwoValued(model) ==
  {p \in (DOMAIN model.reactions) \X (DOMAIN model.reactions) :
     /\ model.reactions[p[1]].params.k = model.reactions[p[2]].params.k
     /\ RateConstant(model, p[1]) # RateConstant(model, p[2])}

\* C22 as stated: in every fixture model two reactions that name the same
\* rate constant resolve it to the same value.
C22_OneValuePerName ==
  (pc = "crn" /\ crn.source \in DOMAIN FixtureFiles) =>
    TwoValued(crn.model) = {}

\* C22, amended: a rate-constant name denotes one value per scope. In
\* part_000, model1.xml and model4.xml two reactions that name the same rate
\* constant resolve it to the same value; in model5.xml the one name with
\* two values is k_forward, a local parameter of r0 (10) and of r1 (0.15).
C22_OneValuePerScope ==
  (pc = "crn" /\ crn.source \in DOMAIN FixtureFiles) =>
    /\ crn.source # "model5.xml" => TwoValued(crn.model) = {}
    /\ \A p \in TwoValued(crn.model) :
         /\ {p[1], p[2]} = {1, 3}
         /\ \A i \in {p[1], p[2]} :
              /\ crn.model.reactions[i].params.k = "k_forward"
              /\ "k_forward" \in DOMAIN crn.model.reactions[i].local
         /\ RateConstant(crn.model, 1) = Quantity(Dec(10, 0))
         /\ RateConstant(crn.model, 3) = Quantity(Dec(15, 2))

C22_Witness ==
  /\ crn.source = "model4.xml"
  /\ crn.model.reactions[1].params.k = crn.model.reactions[2].params.k
  /\ RateConstant(crn.model, 1) = Quantity(Dec(1, 2))
  /\ RateConstant(crn.model, 2) = Quantity(Dec(1, 2))

\* C23: in the sample model G and R are conserved: each of the four
\* reactions has net stoichiometry 0 on G and on R, and in every state of a
\* run from {G:1.0, R:100, T:0, P:0}, and at every time point of its
\* output, G = 1 and R = 100.
C23_GeneAndRibosomeConserved ==
  /\ Reached("cell3") =>
       \A i \in DOMAIN M.reactions :
         Net(M.reactions[i], "G") = 0 /\ Net(M.reactions[i], "R") = 0
  /\ Running =>
       (experiment.state["G"] = Unit /\ experiment.state["R"] = 100 * Unit)
  /\ Reached("cell4") =>
       \A k \in DOMAIN output.time :
         output.species["G"][k] = Unit /\ output.species["R"][k] = 100 * Unit

C23_Witness ==
  /\ pc = "run1"
  /\ experiment.time = total_time
  /\ experiment.state["T"] > 0
  /\ experiment.state["P"] > experiment.state["R"]
  /\ experiment.state["G"] = Unit

\* Two species-reference lists hold the same species equally often
SameMultiset(left, right) ==
  \A s \in Range(Expand(left)) \cup Range(Expand(right)) :
    Count(Expand(left), s) = Count(Expand(right), s)

\* Reaction i of the document undoes reaction j
Reverses(doc, i, j) ==
  /\ SameMultiset(doc.listOfReactions[i].listOfReactants,
                  doc.listOfReactions[j].listOfProducts)
  /\ SameMultiset(doc.listOfReactions[i].listOfProducts,
                  doc.listOfReactions[j].listOfReactants)

\* C24: in the fixtures a reversible step is a pair of irreversible
\* reactions: every reaction has reversible="false", every id is r<n> or
\* r<n>rev, and a reaction r<n>rev takes what reaction r<n> of the same
\* model makes and makes what it takes, so that firing one undoes the other.
C24_ReversePairs ==
  (pc = "crn" /\ crn.source \in DOMAIN FixtureFiles) =>
    \A i \in DOMAIN Document.listOfReactions :
      /\ ~Document.listOfReactions[i].reversible
      /\ \E n \in DOMAIN Document.listOfReactions :
           \/ Document.listOfReactions[i].id = ReactionId(n)
           \/ /\ Document.listOfReactions[i].id = ReactionId(n) \o "rev"
              /\ \E j \in DOMAIN Document.listOfReactions :
                   Document.listOfReactions[j].id = ReactionId(n)
      /\ \A j \in DOMAIN Document.listOfReactions :
           Document.listOfReactions[i].id
             = Document.listOfReactions[j].id \o "rev"
           => /\ Reverses(Document, i, j)
              /\ \A s \in Range(crn.model.species) :
                   Net(crn.model.reactions[i], s)
                     = 0 - Net(crn.model.reactions[j], s)

C24_Witness ==
  /\ crn.source = "part_000"
  /\ Document.listOfReactions[4].id = Document.listOfReactions[3].id \o "rev"
  /\ Reverses(Document, 4, 3)
  /\ Propensity(crn.model, crn.model.reactions[4], crn.counts) > 0

\* RNAase, free and bound to a transcript
TotalRNAase ==
  crn.counts["protein_RNAase"] + crn.counts["complex_protein_RNAase_rna_T_"]

\* C25: in the RNAase degradation model the total amount of RNAase is
\* conserved: in every state reached from the file's initial concentrations
\* by firing its reactions, protein_RNAase + complex_protein_RNAase_rna_T_
\* = 45 and dna_G = 1.
C25_RNAaseConserved ==
  (pc = "crn" /\ crn.source = "part_000") =>
    /\ Range(crn.model.species)
         = {"dna_G", "rna_T", "protein_X", "protein_RNAase",
            "complex_protein_RNAase_rna_T_"}
    /\ TotalRNAase = 45 * Unit
    /\ crn.counts["dna_G"] = Unit

C25_Witness ==
  /\ crn.source = "part_000"
  /\ crn.counts["protein_RNAase"] < 45 * Unit
  /\ crn.counts["complex_protein_RNAase_rna_T_"] >= 2 * Unit
  /\ crn.counts["protein_X"] > 0

\* No reaction of the network has a positive rate in state x
Quiescent(model, x) ==
  \A i \in DOMAIN model.reactions :
    Propensity(model, model.reactions[i], x) = 0

\* C26: the initial state of the models of model4.xml and model5.xml is a
\* fixed point: every species starts at 0 and every reaction is mass action
\* with at least one reactant, so no reaction has a positive rate, a
\* deterministic step changes nothing, and every species is 0 in every
\* reachable state.
C26_InitialStateIsFixedPoint ==
  (pc = "crn" /\ crn.source \in {"model4.xml", "model5.xml"}) =>
    /\ \A s \in Range(crn.model.species) : crn.initial[s] = 0
    /\ \A i \in DOMAIN crn.model.reactions :
         /\ crn.model.reactions[i].type = "massaction"
         /\ crn.model.reactions[i].reactants # <<>>
    /\ \A s \in Range(crn.model.species) : crn.counts[s] = 0
    /\ Quiescent(crn.model, crn.counts)
    /\ DeterministicStep(crn.model, crn.counts) = crn.counts

C26_Witness ==
  /\ crn.source = "model5.xml"
  /\ Len(crn.model.reactions) = 3
  /\ crn.counts = crn.initial
  /\ Quiescent(crn.model, crn.counts)
  /\ RateConstant(crn.model, 2) > 0

====
